---------------------------- MODULE Spec2Model ----------------------------
(***************************************************************************)
(* Grid-GE: the REST handlers of routes/api.ts (src/unnamed/part_005),     *)
(* the storage functions of db/database.ts                                 *)
(* (src/apps/grid-ge/src/simulation/index.ts, lines 364-801) and the grid  *)
(* functions of core/game-logic.ts (src/unnamed/part_003, lines 297-393).  *)
(*                                                                         *)
(* The tables players, games and moves are the state.  Every HTTP request  *)
(* runs in a request slot; a handler is cut at the awaits at which another *)
(* handler can observe or change the tables.  A knex transaction on the    *)
(* single sqlite3 connection is one step.                                  *)
(*                                                                         *)
(* JavaScript values that cross JSON.stringify / JSON.parse carry their    *)
(* kind: the games.grid column holds a string (JSON text), getGameById     *)
(* returns the parsed array (database.ts line 574).                        *)
(*                                                                         *)
(* GET /leaderboard reads the players table only.  Its handler and         *)
(* getLeaderboard are examined by SpecLeaderboard, which starts from any   *)
(* players table the schema and the statistics of won sessions allow.      *)
(*                                                                         *)
(* makeMove and checkWin of game-logic.ts are functions of their           *)
(* arguments; SpecMakeMove and SpecCheckWin apply each once to every grid  *)
(* over {0, 1, 2}.  SpecLive is Spec with handlers that run to their       *)
(* response and a turn holder who keeps posting moves.                     *)
(*                                                                         *)
(* Left out: the created_at / updated_at columns, the player1 / player2    *)
(* name objects getGameById attaches, and the 400 answers to request       *)
(* bodies of the wrong type (every request here carries a number for       *)
(* playerId, row and col and a non-empty name).                            *)
(***************************************************************************)
EXTENDS Integers, Sequences, FiniteSets, TLC

\* ------------------------------------------------------------------ bounds
\* names a client may register under (players.name is UNIQUE)
MaxPlayers == 2
\* sessions ever created
MaxGames == 2
\* requests in flight at the same time
MaxReq == 2
\* a move request names one of the cells 0..MaxCell, counted row by row
MaxCell == 1

\* rows of the players table the leaderboard is computed from
MaxRows == 4
\* wins a row of that table may hold
MaxWins == 3
\* moves a win may have taken beyond the fewest possible
MaxExtraMoves == 1

\* ------------------------------------------------------- program constants
\* the grid is 3 x 3 (createEmptyGrid)
GridSize == 3
\* SQL NULL / JavaScript null for an id column (AUTOINCREMENT ids start at 1)
NULL == 0

\* LIMIT 3 of both leaderboard queries
LeaderboardLimit == 3
\* ROUND(x, 2): values are held in hundredths
Hundredths == 100

Names == 1..MaxPlayers
\* ids a request may name: an id not handed out yet is an unknown one
PlayerIds == 1..MaxPlayers
GameIds == 1..MaxGames
ReqIds == 1..MaxReq
\* the (row, col) a move request may name: the cells 0..MaxCell of the grid
\* and one pair past its last row
Cells ==
    {<<k \div GridSize, k % GridSize>> : k \in 0..MaxCell} \cup {<<GridSize, 0>>}

VARIABLES
    players,    \* table players: row id |-> [name, total_wins, total_moves_in_wins]
    games,      \* table games:   row id |-> game row (grid is a JSON string)
    moves,      \* table moves:   sequence of move rows
    req         \* request slots: the handler activations and their responses

vars == <<players, games, moves, req>>

\* ------------------------------------------------- core/game-logic.ts
createEmptyGrid == [r \in 1..GridSize |-> [c \in 1..GridSize |-> 0]]

\* row and col are the 0-based numbers of the request
isMoveValid(grid, row, col) ==
    IF row < 0 \/ row > 2 \/ col < 0 \/ col > 2
    THEN FALSE
    ELSE grid[row + 1][col + 1] = 0

\* checkWin without the test of the diagonal from (0,2) to (2,0)
checkWin_NoAntiDiagonal(grid, playerId) ==
    \/ \E row \in 1..3 :
          grid[row][1] = playerId /\ grid[row][2] = playerId /\ grid[row][3] = playerId
    \/ \E col \in 1..3 :
          grid[1][col] = playerId /\ grid[2][col] = playerId /\ grid[3][col] = playerId
    \/ grid[1][1] = playerId /\ grid[2][2] = playerId /\ grid[3][3] = playerId

checkWin(grid, playerId) ==
    \/ \E row \in 1..3 :
          grid[row][1] = playerId /\ grid[row][2] = playerId /\ grid[row][3] = playerId
    \/ \E col \in 1..3 :
          grid[1][col] = playerId /\ grid[2][col] = playerId /\ grid[3][col] = playerId
    \/ grid[1][1] = playerId /\ grid[2][2] = playerId /\ grid[3][3] = playerId
    \/ grid[1][3] = playerId /\ grid[2][2] = playerId /\ grid[3][1] = playerId

checkDraw(grid) ==
    \A row \in 1..3 : \A col \in 1..3 : grid[row][col] # 0

\* makeMove of game-logic.ts, imported by the routes as coreMarkMove
coreMarkMove(grid, row, col, playerId) ==
    [grid EXCEPT ![row + 1][col + 1] = playerId]

\* ---- makeMove of game-logic.ts on the JavaScript heap
\* A grid is an array of references to row arrays.  The heap is the sequence
\* of the row arrays allocated so far, a reference is a position in it.

\* makeMove copying the outer array only, [...grid]: the rows are shared
makeMove_SharedRows(heap, grid, row, col, playerId) ==
    [heap |-> [heap EXCEPT ![grid[row + 1]][col + 1] = playerId],
     grid |-> grid]

\* const newGrid = grid.map((row) => [...row]) allocates a copy of every row;
\* newGrid[row][col] = playerId writes into the copy; return newGrid
makeMove(heap, grid, row, col, playerId) ==
    LET copied == heap \o [i \in 1..Len(grid) |-> heap[grid[i]]]
        newGrid == [i \in 1..Len(grid) |-> Len(heap) + i]
    IN [heap |-> [copied EXCEPT ![newGrid[row + 1]][col + 1] = playerId],
        grid |-> newGrid]

\* ------------------------------------------------- JSON
\* a JavaScript string holding the JSON text of array v
JSONstringify(v) == [kind |-> "string", val |-> v]

\* a JavaScript array
JSArray(v) == [kind |-> "array", val |-> v]

\* Array.prototype.toString joins the elements, each converted by its own
\* toString, with ",": the text of a nested array has no comma only when the
\* array holds one row of one element
ArrayToStringHasComma(a) ==
    ~(Len(a) = 1 /\ Len(a[1]) = 1)

\* JSON.parse(x): x is converted to a string first.  A string that is JSON
\* text parses to its value.  An array is converted by toString
\* ("0,0,0,0,0,0,0,0,0" for a grid), which is no JSON text as soon as it
\* holds a comma or is empty: SyntaxError.
JSONparse(x) ==
    IF x.kind = "string"
    THEN [threw |-> FALSE, val |-> x.val]
    ELSE IF Len(x.val) = 0 \/ ArrayToStringHasComma(x.val)
         THEN [threw |-> TRUE, val |-> x.val]
         ELSE [threw |-> FALSE, val |-> x.val[1][1]]

\* ------------------------------------------------- db/database.ts
PlayerRow(name) == [name |-> name, total_wins |-> 0, total_moves_in_wins |-> 0]

\* INSERT INTO players (name): ids are AUTOINCREMENT, name is UNIQUE; a
\* constraint failure is rethrown as the generic database error
createPlayer(name) ==
    IF \E p \in DOMAIN players : players[p].name = name
    THEN [threw |-> TRUE,
          message |-> "Could not create player due to a database error.",
          players |-> players]
    ELSE [threw |-> FALSE, message |-> "",
          players |-> Append(players, PlayerRow(name))]

getPlayerById(id) == id \in DOMAIN players

\* createGame with the move_count column defaulting to 1
createGame_CountFromOne(playerId, grid) ==
    [player1_id |-> playerId,
     player2_id |-> NULL,
     current_turn_player_id |-> playerId,
     status |-> "waiting",
     winner_id |-> NULL,
     grid |-> JSONstringify(grid),
     move_count |-> 1]

\* createGame inserting the row with status 'in_progress'
createGame_StartsInProgress(playerId, grid) ==
    [player1_id |-> playerId,
     player2_id |-> NULL,
     current_turn_player_id |-> playerId,
     status |-> "in_progress",
     winner_id |-> NULL,
     grid |-> JSONstringify(grid),
     move_count |-> 0]

\* createGame without a value for the current_turn_player_id column
createGame_TurnUnset(playerId, grid) ==
    [player1_id |-> playerId,
     player2_id |-> NULL,
     current_turn_player_id |-> NULL,
     status |-> "waiting",
     winner_id |-> NULL,
     grid |-> JSONstringify(grid),
     move_count |-> 0]

\* INSERT INTO games (id, player1_id, status, grid, current_turn_player_id);
\* player2_id and winner_id default to NULL, move_count to 0
createGame(playerId, grid) ==
    [player1_id |-> playerId,
     player2_id |-> NULL,
     current_turn_player_id |-> playerId,
     status |-> "waiting",
     winner_id |-> NULL,
     grid |-> JSONstringify(grid),
     move_count |-> 0]

NoGame == [found |-> FALSE]

\* SELECT * FROM games WHERE id = ?, with grid: JSON.parse(game.grid)
getGameById(gameId) ==
    IF gameId \in DOMAIN games
    THEN [found |-> TRUE,
          row |-> [games[gameId] EXCEPT !.grid = JSArray(JSONparse(@).val)]]
    ELSE NoGame

\* joinGame without the check that the game is still waiting
joinGame_NoWaitingCheck(gameId, playerId) ==
    IF gameId \notin DOMAIN games
    THEN [threw |-> TRUE, message |-> "Game not found"]
    ELSE LET gameData == games[gameId] IN
         IF gameData.player1_id = playerId
         THEN [threw |-> TRUE, message |-> "Cannot join your own game"]
         ELSE [threw |-> FALSE, message |-> "",
               row |-> [gameData EXCEPT !.player2_id = playerId,
                                        !.status = "in_progress"]]

\* joinGame with an UPDATE that sets player2_id and leaves status alone
joinGame_StatusKept(gameId, playerId) ==
    IF gameId \notin DOMAIN games
    THEN [threw |-> TRUE, message |-> "Game not found"]
    ELSE LET gameData == games[gameId] IN
         IF gameData.status # "waiting"
         THEN [threw |-> TRUE, message |-> "Game is not in waiting state"]
         ELSE IF gameData.player1_id = playerId
         THEN [threw |-> TRUE, message |-> "Cannot join your own game"]
         ELSE [threw |-> FALSE, message |-> "",
               row |-> [gameData EXCEPT !.player2_id = playerId]]

\* joinGame without the check that the joiner is not the first player
joinGame_NoSelfCheck(gameId, playerId) ==
    IF gameId \notin DOMAIN games
    THEN [threw |-> TRUE, message |-> "Game not found"]
    ELSE LET gameData == games[gameId] IN
         IF gameData.status # "waiting"
         THEN [threw |-> TRUE, message |-> "Game is not in waiting state"]
         ELSE [threw |-> FALSE, message |-> "",
               row |-> [gameData EXCEPT !.player2_id = playerId,
                                        !.status = "in_progress"]]

\* joinGame with an UPDATE that also hands the turn to the joiner
joinGame_TurnToJoiner(gameId, playerId) ==
    IF gameId \notin DOMAIN games
    THEN [threw |-> TRUE, message |-> "Game not found"]
    ELSE LET gameData == games[gameId] IN
         IF gameData.status # "waiting"
         THEN [threw |-> TRUE, message |-> "Game is not in waiting state"]
         ELSE IF gameData.player1_id = playerId
         THEN [threw |-> TRUE, message |-> "Cannot join your own game"]
         ELSE [threw |-> FALSE, message |-> "",
               row |-> [gameData EXCEPT !.player2_id = playerId,
                                        !.status = "in_progress",
                                        !.current_turn_player_id = playerId]]

\* the transaction of joinGame: the error it throws, or the updated row
joinGame(gameId, playerId) ==
    IF gameId \notin DOMAIN games
    THEN [threw |-> TRUE, message |-> "Game not found"]
    ELSE LET gameData == games[gameId] IN
         IF gameData.status # "waiting"
         THEN [threw |-> TRUE, message |-> "Game is not in waiting state"]
         ELSE IF gameData.player1_id = playerId
         THEN [threw |-> TRUE, message |-> "Cannot join your own game"]
         ELSE [threw |-> FALSE, message |-> "",
               row |-> [gameData EXCEPT !.player2_id = playerId,
                                        !.status = "in_progress"]]

\* the transaction of makeMove (database.ts): the error it throws, or the
\* tables after UPDATE games, INSERT INTO moves and, for a winner, UPDATE players
dbMakeMove(gameId, playerId, row, col, newGrid, newStatus, winnerId) ==
    IF gameId \notin DOMAIN games
    THEN [threw |-> TRUE, message |-> "Game not found"]
    ELSE LET game == games[gameId] IN
         IF game.status # "in_progress"
         THEN [threw |-> TRUE, message |-> "Game is not in progress"]
         ELSE IF game.current_turn_player_id # playerId
         THEN [threw |-> TRUE, message |-> "Not your turn"]
         ELSE IF JSONparse(game.grid).val[row + 1][col + 1] # 0
         THEN [threw |-> TRUE, message |-> "Cell is already occupied"]
         ELSE LET moveNumber == game.move_count + 1
                  nextPlayerId == IF game.player1_id = playerId
                                  THEN game.player2_id
                                  ELSE game.player1_id
              IN [threw |-> FALSE, message |-> "",
                  games |-> [games EXCEPT ![gameId] =
                      [game EXCEPT
                          !.grid = JSONstringify(newGrid),
                          !.move_count = moveNumber,
                          !.current_turn_player_id =
                              IF newStatus = "in_progress"
                              THEN nextPlayerId
                              ELSE game.current_turn_player_id,
                          !.status = newStatus,
                          !.winner_id = winnerId]],
                  moves |-> Append(moves,
                      [game_id |-> gameId, player_id |-> playerId,
                       row |-> row, col |-> col, move_number |-> moveNumber]),
                  players |-> IF winnerId # NULL /\ winnerId \in DOMAIN players
                              THEN [players EXCEPT
                                      ![winnerId].total_wins = @ + 1,
                                      ![winnerId].total_moves_in_wins = @ + moveNumber]
                              ELSE players]

\* ---- getLeaderboard (database.ts)
\* WHERE total_wins > 0 with every row passing
Winners_All == DOMAIN players

\* WHERE total_wins > 0
Winners == {p \in DOMAIN players : players[p].total_wins > 0}

\* ORDER BY total_wins ASC in place of DESC
Before_WinsAscending(by, a, b) ==
    LET wa == players[a].total_wins
        wb == players[b].total_wins
        ma == players[a].total_moves_in_wins
        mb == players[b].total_moves_in_wins
    IN IF by = "wins"
       THEN wa < wb \/ (wa = wb /\ a < b)
       ELSE ma * wb < mb * wa \/ (ma * wb = mb * wa /\ a < b)

\* rows with equal keys leaving the sorter in descending rowid order
Before_TiesByIdDescending(by, a, b) ==
    LET wa == players[a].total_wins
        wb == players[b].total_wins
        ma == players[a].total_moves_in_wins
        mb == players[b].total_moves_in_wins
    IN IF by = "wins"
       THEN wa > wb \/ (wa = wb /\ a > b)
       ELSE ma * wb < mb * wa \/ (ma * wb = mb * wa /\ a > b)

\* row a leaves the sort before row b.  ORDER BY total_wins DESC, or ORDER BY
\* CAST(total_moves_in_wins AS FLOAT) / total_wins ASC: two quotients of
\* small integers compare as the fractions do.  The queries name no further
\* key; SQLite scans players by rowid and its sorter returns rows with equal
\* keys in scan order.
Before(by, a, b) ==
    LET wa == players[a].total_wins
        wb == players[b].total_wins
        ma == players[a].total_moves_in_wins
        mb == players[b].total_moves_in_wins
    IN IF by = "wins"
       THEN wa > wb \/ (wa = wb /\ a < b)
       ELSE ma * wb < mb * wa \/ (ma * wb = mb * wa /\ a < b)

\* RANK() in place of ROW_NUMBER(): 1 + the rows with a strictly better key
RowNumber_Rank(by, p) ==
    1 + Cardinality({q \in Winners :
            IF by = "wins"
            THEN players[q].total_wins > players[p].total_wins
            ELSE players[q].total_moves_in_wins * players[p].total_wins
                   < players[p].total_moves_in_wins * players[q].total_wins})

\* ROW_NUMBER() OVER (ORDER BY ...): 1 for the first row of the window's
\* order, 2 for the next, and so on
RowNumber(by, p) == 1 + Cardinality({q \in Winners : Before(by, q, p)})

\* the column `value`: total_wins, or
\* ROUND(CAST(total_moves_in_wins AS FLOAT) / total_wins, 2) in hundredths,
\* a half rounded away from zero
ValueOf(by, p) ==
    IF by = "wins"
    THEN players[p].total_wins
    ELSE (2 * Hundredths * players[p].total_moves_in_wins + players[p].total_wins)
            \div (2 * players[p].total_wins)

Min(a, b) == IF a < b THEN a ELSE b

\* the rows the query returns, in the order of its ORDER BY, cut by LIMIT
getLeaderboard(by) ==
    [i \in 1..Min(Cardinality(Winners), LeaderboardLimit) |->
        LET p == CHOOSE q \in Winners :
                    Cardinality({o \in Winners : Before(by, o, q)}) = i - 1
        IN [rank |-> RowNumber(by, p),
            playerId |-> p,
            name |-> players[p].name,
            value |-> ValueOf(by, p)]]

\* ------------------------------------------------- request slots
Idle ==
    [op |-> "none", pc |-> "idle", name |-> 0, gameId |-> 0, playerId |-> 0,
     row |-> 0, col |-> 0, game |-> NoGame, code |-> 0, error |-> ""]

\* a slot can take a new request when it holds none or a finished one
Free(r) == req[r].pc \in {"idle", "done"}

Request(op, pc, name, gameId, playerId, row, col, game) ==
    [op |-> op, pc |-> pc, name |-> name, gameId |-> gameId,
     playerId |-> playerId, row |-> row, col |-> col, game |-> game,
     code |-> 0, error |-> ""]

\* res.status(code).json(...): the handler ends
Respond(r, code, error) ==
    [r EXCEPT !.pc = "done", !.code = code, !.error = error]

Init ==
    /\ players = << >>
    /\ games = << >>
    /\ moves = << >>
    /\ req = [r \in ReqIds |-> Idle]

\* ------------------------------------------------- routes/api.ts
\* the catch block of POST /players
PlayersCatch(message) ==
    IF message = "Player with this name already exists"
    THEN [code |-> 409, error |-> "Player with this name already exists"]
    ELSE [code |-> 500, error |-> "Internal server error"]

\* POST /players
PostPlayers(r, name) ==
    /\ Free(r)
    /\ LET made == createPlayer(name)
           start == Request("players", "done", name, 0, 0, 0, 0, NoGame)
       IN /\ players' = made.players
          /\ req' = [req EXCEPT ![r] =
                IF made.threw
                THEN Respond(start, PlayersCatch(made.message).code,
                             PlayersCatch(made.message).error)
                ELSE Respond(start, 201, "")]
    /\ UNCHANGED <<games, moves>>

\* POST /games; uuidv4() is the next unused id
PostGames(r, playerId) ==
    /\ Free(r)
    /\ Len(games) < MaxGames
    /\ LET start == Request("games", "done", 0, 0, playerId, 0, 0, NoGame) IN
       IF ~getPlayerById(playerId)
       THEN /\ req' = [req EXCEPT ![r] = Respond(start, 404, "Player not found")]
            /\ UNCHANGED games
       ELSE LET game == createGame(playerId, createEmptyGrid) IN
            /\ games' = Append(games, game)
            /\ req' = [req EXCEPT ![r] =
                  IF JSONparse(game.grid).threw
                  THEN Respond(start, 500, "Internal server error")
                  ELSE Respond([start EXCEPT !.gameId = Len(games) + 1], 201, "")]
    /\ UNCHANGED <<players, moves>>

\* the catch block of POST /games/:gameId/join without its branch for
\* 'Game is not in waiting state'
JoinCatch_NoWaitingBranch(message) ==
    IF message = "Game not found"
    THEN [code |-> 404, error |-> "Game not found"]
    ELSE IF message = "Cannot join your own game"
    THEN [code |-> 409, error |-> "Cannot join your own game"]
    ELSE [code |-> 500, error |-> "Internal server error"]

\* the catch block of POST /games/:gameId/join
JoinCatch(message) ==
    IF message = "Game not found"
    THEN [code |-> 404, error |-> "Game not found"]
    ELSE IF message = "Game is not in waiting state"
    THEN [code |-> 409, error |-> "Game is not in waiting state"]
    ELSE IF message = "Cannot join your own game"
    THEN [code |-> 409, error |-> "Cannot join your own game"]
    ELSE [code |-> 500, error |-> "Internal server error"]

\* POST /games/:gameId/join up to the call of joinGame
PostJoinBegin(r, gameId, playerId) ==
    /\ Free(r)
    /\ LET game == getGameById(gameId)
           start == Request("join", "join_tx", 0, gameId, playerId, 0, 0, game)
       IN req' = [req EXCEPT ![r] =
             IF ~getPlayerById(playerId)
             THEN Respond([start EXCEPT !.game = NoGame], 404, "Player not found")
             ELSE IF ~game.found
             THEN Respond(start, 404, "Game not found")
             ELSE start]
    /\ UNCHANGED <<players, games, moves>>

\* POST /games/:gameId/join with an UPDATE games that has no WHERE id = ?
PostJoinTx_UpdateAll(r) ==
    /\ req[r].pc = "join_tx"
    /\ LET res == joinGame(req[r].gameId, req[r].playerId) IN
       IF res.threw
       THEN /\ req' = [req EXCEPT ![r] =
                  Respond(@, JoinCatch(res.message).code, JoinCatch(res.message).error)]
            /\ UNCHANGED games
       ELSE /\ games' = [g \in DOMAIN games |->
                            [games[g] EXCEPT !.player2_id = req[r].playerId,
                                             !.status = "in_progress"]]
            /\ req' = [req EXCEPT ![r] = Respond(@, 200, "")]
    /\ UNCHANGED <<players, moves>>

\* POST /games/:gameId/join: the transaction of joinGame and the response
PostJoinTx(r) ==
    /\ req[r].pc = "join_tx"
    /\ LET res == joinGame(req[r].gameId, req[r].playerId) IN
       IF res.threw
       THEN /\ req' = [req EXCEPT ![r] =
                  Respond(@, JoinCatch(res.message).code, JoinCatch(res.message).error)]
            /\ UNCHANGED games
       ELSE /\ games' = [games EXCEPT ![req[r].gameId] = res.row]
            /\ req' = [req EXCEPT ![r] = Respond(@, 200, "")]
    /\ UNCHANGED <<players, moves>>

\* GET /games/:gameId: game.grid is the array getGameById parsed, and the
\* handler parses it again (line 157); the SyntaxError ends in the bare catch
GetGame(r, gameId) ==
    /\ Free(r)
    /\ LET game == getGameById(gameId)
           start == Request("get", "done", 0, gameId, 0, 0, 0, game)
       IN req' = [req EXCEPT ![r] =
             IF ~game.found
             THEN Respond(start, 404, "Game not found")
             ELSE IF JSONparse(game.row.grid).threw
             THEN Respond(start, 500, "Internal server error")
             ELSE Respond(start, 200, "")]
    /\ UNCHANGED <<players, games, moves>>

\* the catch block of POST /games/:gameId/move
MoveCatch(message) ==
    IF message = "Game not found"
    THEN [code |-> 404, error |-> "Game not found"]
    ELSE IF message = "Game is not in progress"
    THEN [code |-> 403, error |-> "Game is not in progress"]
    ELSE IF message = "Not your turn"
    THEN [code |-> 403, error |-> "Not your turn"]
    ELSE IF message = "Cell is already occupied"
    THEN [code |-> 409, error |-> "Cell is already occupied"]
    ELSE [code |-> 500, error |-> "Internal server error"]

\* POST /games/:gameId/move up to the return of getGameById (line 193)
PostMoveBegin(r, gameId, playerId, row, col) ==
    /\ Free(r)
    /\ LET game == getGameById(gameId)
           start == Request("move", "move_got", 0, gameId, playerId, row, col, game)
       IN req' = [req EXCEPT ![r] =
             IF ~getPlayerById(playerId)
             THEN Respond([start EXCEPT !.game = NoGame], 404, "Player not found")
             ELSE IF ~game.found
             THEN Respond(start, 404, "Game not found")
             ELSE start]
    /\ UNCHANGED <<players, games, moves>>

\* the checks of the move handler with the turn check ahead of the status
\* check
MoveDecision_TurnFirst(game, playerId, row, col) ==
    IF game.current_turn_player_id # playerId
    THEN [call |-> FALSE, code |-> 403, error |-> "Not your turn"]
    ELSE IF game.status # "in_progress"
    THEN [call |-> FALSE, code |-> 403, error |-> "Game is not in progress"]
    ELSE [call |-> FALSE, code |-> MoveCatch("SyntaxError").code,
          error |-> MoveCatch("SyntaxError").error]

\* what the handler of POST /games/:gameId/move computes from the game it
\* read (lines 199-233): a response, or the arguments of dbMakeMove
MoveDecision(game, playerId, row, col) ==
    IF game.status # "in_progress"
    THEN [call |-> FALSE, code |-> 403, error |-> "Game is not in progress"]
    ELSE IF game.current_turn_player_id # playerId
    THEN [call |-> FALSE, code |-> 403, error |-> "Not your turn"]
    ELSE LET parsed == JSONparse(game.grid) IN
         IF parsed.threw
         THEN [call |-> FALSE, code |-> MoveCatch("SyntaxError").code,
               error |-> MoveCatch("SyntaxError").error]
         ELSE LET currentGrid == parsed.val IN
              IF ~isMoveValid(currentGrid, row, col)
              THEN [call |-> FALSE, code |-> 409,
                    error |-> "Invalid move: cell is already occupied or out of bounds"]
              ELSE LET playerNumber == IF game.player1_id = playerId THEN 1 ELSE 2
                       newGrid == coreMarkMove(currentGrid, row, col, playerNumber)
                       won == checkWin(newGrid, playerNumber)
                   IN [call |-> TRUE, code |-> 0, error |-> "",
                       newGrid |-> newGrid,
                       newStatus |-> IF won THEN "win"
                                     ELSE IF checkDraw(newGrid) THEN "draw"
                                     ELSE "in_progress",
                       winnerId |-> IF won THEN playerId ELSE NULL]

\* POST /games/:gameId/move from line 199 to the call of dbMakeMove
PostMoveContinue(r) ==
    /\ req[r].pc = "move_got"
    /\ LET d == MoveDecision(req[r].game.row, req[r].playerId, req[r].row, req[r].col)
       IN req' = [req EXCEPT ![r] =
             IF d.call THEN [@ EXCEPT !.pc = "move_tx"]
             ELSE Respond(@, d.code, d.error)]
    /\ UNCHANGED <<players, games, moves>>

\* POST /games/:gameId/move: the transaction of dbMakeMove and the response.
\* No request reaches pc = "move_tx": MoveDecision ends every request that
\* passes the status and turn checks at JSON.parse, so Next has no such step.
PostMoveTx(r) ==
    /\ req[r].pc = "move_tx"
    /\ LET d == MoveDecision(req[r].game.row, req[r].playerId, req[r].row, req[r].col)
           res == dbMakeMove(req[r].gameId, req[r].playerId, req[r].row, req[r].col,
                             d.newGrid, d.newStatus, d.winnerId)
       IN IF res.threw
          THEN /\ req' = [req EXCEPT ![r] =
                     Respond(@, MoveCatch(res.message).code, MoveCatch(res.message).error)]
               /\ UNCHANGED <<players, games, moves>>
          ELSE /\ games' = res.games
               /\ moves' = res.moves
               /\ players' = res.players
               /\ req' = [req EXCEPT ![r] = Respond(@, 200, "")]

Next ==
    \E r \in ReqIds :
        \/ \E name \in Names : PostPlayers(r, name)
        \/ \E playerId \in PlayerIds : PostGames(r, playerId)
        \/ \E gameId \in GameIds, playerId \in PlayerIds :
              PostJoinBegin(r, gameId, playerId)
        \/ PostJoinTx(r)
        \/ \E gameId \in GameIds : GetGame(r, gameId)
        \/ \E gameId \in GameIds, playerId \in PlayerIds, cell \in Cells :
              PostMoveBegin(r, gameId, playerId, cell[1], cell[2])
        \/ PostMoveContinue(r)

Spec == Init /\ [][Next]_vars

\* ------------------------------------------------- scheduling
\* the player whose turn it is posts a move on a session in progress
TurnHolderSubmits(g) ==
    /\ g \in DOMAIN games
    /\ games[g].status = "in_progress"
    /\ \E r \in ReqIds, cell \in Cells :
          PostMoveBegin(r, g, games[g].current_turn_player_id, cell[1], cell[2])

\* Node runs every handler it started to its response, and the player
\* whose turn it is keeps posting moves
SpecLive ==
    /\ Spec
    /\ \A r \in ReqIds : WF_vars(PostJoinTx(r)) /\ WF_vars(PostMoveContinue(r))
    /\ \A g \in GameIds : WF_vars(TurnHolderSubmits(g))

\* ------------------------------------------------- leaderboard
\* GET /leaderboard?by=...: 400 unless by is 'wins' or 'efficiency', else
\* 200 with the rows of getLeaderboard
GetLeaderboard(r, by) ==
    /\ Free(r)
    /\ req' = [req EXCEPT ![r] =
          IF by # "wins" /\ by # "efficiency"
          THEN [op |-> "leaderboard", pc |-> "done", by |-> by, code |-> 400,
                error |-> "Query parameter \"by\" is required and must be \"wins\" or \"efficiency\"",
                body |-> << >>]
          ELSE [op |-> "leaderboard", pc |-> "done", by |-> by, code |-> 200,
                error |-> "", body |-> getLeaderboard(by)]]
    /\ UNCHANGED <<players, games, moves>>

\* the values of the query parameter: the two orderings and another word
Orderings == {"wins", "efficiency", "name"}

\* the fewest moves a won session has: the winner's third mark in a line
MinWinMoves == 2 * GridSize - 1

\* the (total_wins, total_moves_in_wins) a players row can hold: no wins
\* and no moves, or w wins of MinWinMoves..MinWinMoves + MaxExtraMoves each
StatsOf(w) ==
    {<<w, m>> : m \in (w * MinWinMoves)..(w * (MinWinMoves + MaxExtraMoves))}

Stats == UNION {StatsOf(w) : w \in 0..MaxWins}

\* players tables of up to MaxRows rows; row i was registered as name i
Tables ==
    UNION {[1..n -> Stats] : n \in 0..MaxRows}

\* getLeaderboard is a function of the players table alone: the table is
\* drawn from Tables and leaderboard requests are answered from it
InitLeaderboard ==
    /\ \E t \in Tables :
          players = [i \in DOMAIN t |->
                       [name |-> i, total_wins |-> t[i][1],
                        total_moves_in_wins |-> t[i][2]]]
    /\ games = << >>
    /\ moves = << >>
    /\ req = [r \in ReqIds |-> Idle]

NextLeaderboard ==
    \E r \in ReqIds, by \in Orderings : GetLeaderboard(r, by)

SpecLeaderboard == InitLeaderboard /\ [][NextLeaderboard]_vars

\* ------------------------------------------------- grid functions
\* the marks of the two seats (playerNumber) and the values of a cell
Marks == {1, 2}
CellValues == {0} \cup Marks

\* every 3 x 3 grid over the cell values
Grids == [1..GridSize -> [1..GridSize -> CellValues]]

\* the 0-based coordinates inside the grid
Coords == 0..(GridSize - 1)

\* a call of a grid function starts from no request in flight
InitGrid ==
    /\ players = << >>
    /\ games = << >>
    /\ moves = << >>
    /\ req = [r \in ReqIds |-> Idle]

\* a behaviour holds one call: the function is applied once to its inputs
NoCallYet == \A r \in ReqIds : req[r].pc = "idle"

\* makeMove(grid, row, col, playerId) called on a grid whose rows are the
\* first GridSize arrays of the heap; the call is kept with the heap before
\* and after it
CallMakeMove(g, row, col, playerId) ==
    /\ LET before == [i \in 1..GridSize |-> g[i]]
           grid == [i \in 1..GridSize |-> i]
           res == makeMove(before, grid, row, col, playerId)
       IN req' = [r \in ReqIds |->
             [op |-> "makeMove", pc |-> "done", before |-> before,
              grid |-> grid, row |-> row, col |-> col, playerId |-> playerId,
              after |-> res.heap, result |-> res.grid]]
    /\ UNCHANGED <<players, games, moves>>

NextMakeMove ==
    /\ NoCallYet
    /\ \E g \in Grids, row \in Coords, col \in Coords, playerId \in Marks :
          CallMakeMove(g, row, col, playerId)

SpecMakeMove == InitGrid /\ [][NextMakeMove]_vars

\* checkWin(grid, playerId); the call is kept with its result
CallCheckWin(g, playerId) ==
    /\ req' = [r \in ReqIds |->
          [op |-> "checkWin", pc |-> "done", grid |-> g,
           playerId |-> playerId, result |-> checkWin(g, playerId)]]
    /\ UNCHANGED <<players, games, moves>>

NextCheckWin ==
    /\ NoCallYet
    /\ \E g \in Grids, playerId \in Marks : CallCheckWin(g, playerId)

SpecCheckWin == InitGrid /\ [][NextCheckWin]_vars

\* ------------------------------------------------- observations
\* the committed grid of session g, as a reader of the games table parses it
GridOf(g) == JSONparse(games[g].grid).val

NonEmptyCells(grid) ==
    Cardinality({rc \in (1..GridSize) \X (1..GridSize) : grid[rc[1]][rc[2]] # 0})

IsDone(r, op) == req[r].op = op /\ req[r].pc = "done"

Accepted(r) == req[r].pc = "done" /\ req[r].code = 200

\* the move request of slot r was legal in the session as the handler read it:
\* in progress, no move made yet, the requester's turn, the cell empty
ReadLegalFirstMove(r) ==
    /\ req[r].op = "move"
    /\ req[r].game.found
    /\ req[r].game.row.status = "in_progress"
    /\ req[r].game.row.move_count = 0
    /\ req[r].game.row.current_turn_player_id = req[r].playerId
    /\ isMoveValid(req[r].game.row.grid.val, req[r].row, req[r].col)

\* slots a and b hold two finished move requests that raced on one empty cell
\* of one in-progress session
RacedOnCell(a, b) ==
    /\ a # b
    /\ IsDone(a, "move") /\ IsDone(b, "move")
    /\ req[a].gameId = req[b].gameId
    /\ req[a].row = req[b].row /\ req[a].col = req[b].col
    /\ ReadLegalFirstMove(a) /\ ReadLegalFirstMove(b)

\* ------------------------------------------------- claims

C3_ExactlyOneAccepted ==
    \A a \in ReqIds, b \in ReqIds :
        RacedOnCell(a, b) => (Accepted(a) /\ ~Accepted(b)) \/ (~Accepted(a) /\ Accepted(b))

\* C4 (as claimed): of two move requests that raced on the same empty cell,
\* the one that is not accepted is answered IllegalMove (cell occupied).
C4_LoserGetsIllegalMove ==
    \A a \in ReqIds, b \in ReqIds :
        (RacedOnCell(a, b) /\ ~Accepted(a)) =>
            /\ req[a].code = 409
            /\ req[a].error \in
                 {"Cell is already occupied",
                  "Invalid move: cell is already occupied or out of bounds"}

\* at most one of the finished join requests on one session was accepted
AtMostOneJoinAccepted ==
    \A a \in ReqIds, b \in ReqIds :
        (a # b /\ IsDone(a, "join") /\ IsDone(b, "join")
              /\ req[a].gameId = req[b].gameId /\ Accepted(a))
            => ~Accepted(b)

\* a second player id, once set, is not overwritten in this step
Player2Kept ==
    \A g \in DOMAIN games :
        games[g].player2_id # NULL => games'[g].player2_id = games[g].player2_id

\* slot r ends its join transaction in this step
JoinCommits(r) == req[r].pc = "join_tx" /\ req'[r].pc = "done"

\* slot r read its session as waiting and, at its commit, a join request of
\* another player on the same session is in flight
RacingJoin(r) ==
    /\ req[r].game.row.status = "waiting"
    /\ \E b \in ReqIds :
          /\ b # r
          /\ req[b].pc = "join_tx"
          /\ req[b].gameId = req[r].gameId
          /\ req[b].playerId # req[r].playerId

AnsweredNotWaiting(r) ==
    req'[r].code = 409 /\ req'[r].error = "Game is not in waiting state"

\* C5 (as claimed): of the join requests racing on one waiting session at most
\* one is accepted, every other one is answered InvalidState ('Game is not in
\* waiting state'), and a second player id, once set, is never overwritten.
C5_OthersGetInvalidState ==
    /\ [] AtMostOneJoinAccepted
    /\ [][/\ Player2Kept
          /\ \A r \in ReqIds :
                (JoinCommits(r) /\ RacingJoin(r)) =>
                    req'[r].code = 200 \/ AnsweredNotWaiting(r)]_vars

\* C5 (amended): of the join requests on one session at most one is accepted
\* and a second player id, once set, is never overwritten.  A join that
\* commits while the session is waiting is accepted when the player is not
\* the first player and answered SelfJoin ('Cannot join your own game') when
\* it is; a join that commits after the session left waiting is answered
\* InvalidState.  A rejected join changes nothing.
C5_JoinStep ==
    /\ Player2Kept
    /\ \A r \in ReqIds :
          JoinCommits(r) =>
              LET g == req[r].gameId IN
              IF games[g].status # "waiting"
              THEN AnsweredNotWaiting(r) /\ games' = games
              ELSE IF req[r].playerId = games[g].player1_id
              THEN /\ req'[r].code = 409
                   /\ req'[r].error = "Cannot join your own game"
                   /\ games' = games
              ELSE /\ req'[r].code = 200
                   /\ games[g].player2_id = NULL
                   /\ games'[g].player2_id = req[r].playerId

C5_JoinRace == [] AtMostOneJoinAccepted /\ [][C5_JoinStep]_vars

\* C5 witness: two join requests were in flight on the same waiting session;
\* one was accepted, the other (which had read the session as waiting) was
\* answered 'Game is not in waiting state'
C5_Witness ==
    \E a \in ReqIds, b \in ReqIds :
        /\ a # b
        /\ IsDone(a, "join") /\ IsDone(b, "join")
        /\ req[a].gameId = req[b].gameId
        /\ Accepted(a)
        /\ req[b].game.found /\ req[b].game.row.status = "waiting"
        /\ req[b].code = 409 /\ req[b].error = "Game is not in waiting state"
        /\ games[req[a].gameId].player2_id = req[a].playerId

\* the three conditions of C14 on session g
IsWaiting(g) == games[g].status = "waiting"
SecondAbsent(g) == games[g].player2_id = NULL
FirstHasTurn(g) == games[g].current_turn_player_id = games[g].player1_id

\* C14 (as claimed): for every session 'status = waiting', 'second player
\* absent' and 'current-turn = first player' are equivalent.
C14_ThreeEquivalent ==
    \A g \in DOMAIN games :
        /\ IsWaiting(g) <=> SecondAbsent(g)
        /\ SecondAbsent(g) <=> FirstHasTurn(g)

\* C14 (amended): for every session 'status = waiting' and 'second player
\* absent' are equivalent, and each implies 'current-turn = first player'.
C14_WaitingIffSecondAbsent ==
    \A g \in DOMAIN games :
        /\ IsWaiting(g) <=> SecondAbsent(g)
        /\ IsWaiting(g) => FirstHasTurn(g)

\* C14 witness: a waiting session without a second player next to a joined
\* session, in progress, whose turn is still the first player's
C14_Witness ==
    \E g \in DOMAIN games, h \in DOMAIN games :
        /\ IsWaiting(g) /\ SecondAbsent(g) /\ FirstHasTurn(g)
        /\ games[h].status = "in_progress" /\ ~SecondAbsent(h) /\ FirstHasTurn(h)

\* the statuses a session may have after one step from status s
ForwardOf(s) ==
    IF s = "waiting" THEN {"waiting", "in_progress"}
    ELSE IF s = "in_progress" THEN {"in_progress", "win", "draw"}
    ELSE {s}

\* every session in progress has two registered, distinct players
InProgressSeated ==
    \A g \in DOMAIN games :
        games[g].status = "in_progress" =>
            /\ games[g].player1_id \in DOMAIN players
            /\ games[g].player2_id \in DOMAIN players
            /\ games[g].player1_id # games[g].player2_id

\* no session disappears and no status goes back in this step
StatusStep ==
    \A g \in DOMAIN games :
        /\ g \in DOMAIN games'
        /\ games'[g].status \in ForwardOf(games[g].status)

\* C15: the status of a session only moves forward, waiting -> in_progress
\* -> {win, draw}: a session that left waiting never returns to waiting, a
\* terminal session never returns to in_progress, and a session in progress
\* has both players present and distinct.
C15_StatusForward == [] InProgressSeated /\ [][StatusStep]_vars

\* C15 witness: a session in progress with two distinct players on which a
\* later join transaction ran and was turned away
C15_Witness ==
    \E g \in DOMAIN games, r \in ReqIds :
        /\ games[g].status = "in_progress"
        /\ games[g].player2_id # NULL
        /\ games[g].player1_id # games[g].player2_id
        /\ IsDone(r, "join") /\ req[r].gameId = g
        /\ req[r].game.found /\ req[r].game.row.status = "in_progress"
        /\ req[r].code = 409

\* C16: a join that succeeds sets the second player to the joiner and the
\* status to in_progress, and leaves the current turn (the first player's),
\* the grid (empty), the move counter (0), the winner (unset), the other
\* sessions, the move records and all player statistics unchanged.
C16_JoinStep ==
    \A r \in ReqIds :
        (JoinCommits(r) /\ req'[r].code = 200) =>
            LET g == req[r].gameId IN
            /\ games'[g].player2_id = req[r].playerId
            /\ games'[g].status = "in_progress"
            /\ games'[g].current_turn_player_id = games[g].current_turn_player_id
            /\ games'[g].current_turn_player_id = games[g].player1_id
            /\ games'[g].player1_id = games[g].player1_id
            /\ games'[g].grid = games[g].grid
            /\ JSONparse(games'[g].grid).val = createEmptyGrid
            /\ games'[g].move_count = games[g].move_count
            /\ games'[g].move_count = 0
            /\ games'[g].winner_id = games[g].winner_id
            /\ games'[g].winner_id = NULL
            /\ \A h \in DOMAIN games : h # g => games'[h] = games[h]
            /\ DOMAIN games' = DOMAIN games
            /\ moves' = moves
            /\ players' = players

C16_JoinFrame == [][C16_JoinStep]_vars

\* C16 witness: a join was accepted and its session is in progress with the
\* joiner as second player and the turn with the first player
C16_Witness ==
    \E r \in ReqIds :
        /\ IsDone(r, "join") /\ Accepted(r)
        /\ LET g == req[r].gameId IN
           /\ games[g].player2_id = req[r].playerId
           /\ games[g].status = "in_progress"
           /\ games[g].current_turn_player_id = games[g].player1_id
           /\ games[g].move_count = 0

\* C17: a join transaction on a session that is not waiting is answered
\* InvalidState (409 'Game is not in waiting state') whoever the joiner is,
\* the first player included, and leaves every table unchanged.
C17_NotWaitingStep ==
    \A r \in ReqIds :
        (JoinCommits(r) /\ games[req[r].gameId].status # "waiting") =>
            /\ AnsweredNotWaiting(r)
            /\ games' = games
            /\ moves' = moves
            /\ players' = players

C17_JoinNotWaiting == [][C17_NotWaitingStep]_vars

\* C17 witness: the first player and another player each had a join on a
\* session in progress answered 'Game is not in waiting state'
C17_Witness ==
    \E a \in ReqIds, b \in ReqIds :
        /\ IsDone(a, "join") /\ IsDone(b, "join")
        /\ req[a].gameId = req[b].gameId
        /\ req[a].game.found /\ req[b].game.found
        /\ games[req[a].gameId].status = "in_progress"
        /\ req[a].playerId = games[req[a].gameId].player1_id
        /\ req[b].playerId # games[req[a].gameId].player1_id
        /\ \A r \in {a, b} :
              /\ req[r].game.row.status = "in_progress"
              /\ req[r].code = 409
              /\ req[r].error = "Game is not in waiting state"

\* no session has the same player as first and as second player
NeverSelfSeated ==
    \A g \in DOMAIN games : games[g].player2_id # games[g].player1_id

\* a join of the first player that commits on the waiting session is
\* answered SelfJoin and leaves the session waiting without second player
SelfJoinStep ==
    \A r \in ReqIds :
        LET g == req[r].gameId IN
        (/\ JoinCommits(r)
         /\ games[g].status = "waiting"
         /\ req[r].playerId = games[g].player1_id) =>
            /\ req'[r].code = 409
            /\ req'[r].error = "Cannot join your own game"
            /\ games' = games
            /\ games'[g].status = "waiting"
            /\ games'[g].player2_id = NULL

\* C18: a join by the first player of a waiting session is rejected with
\* SelfJoin ('Cannot join your own game'), the session stays waiting with
\* no second player, and no session ever has one player in both seats.
C18_SelfJoin == [] NeverSelfSeated /\ [][SelfJoinStep]_vars

\* C18 witness: the first player's join was answered 'Cannot join your own
\* game' and the session is still waiting with no second player
C18_Witness ==
    \E r \in ReqIds :
        /\ IsDone(r, "join")
        /\ req[r].code = 409 /\ req[r].error = "Cannot join your own game"
        /\ LET g == req[r].gameId IN
           /\ req[r].playerId = games[g].player1_id
           /\ games[g].status = "waiting"
           /\ games[g].player2_id = NULL

\* slot r holds a move request that was answered with something other
\* than 200
MoveRejected(r) == IsDone(r, "move") /\ req[r].code # 200

\* the answer the move request in slot r got is the one its condition names
RejectionNamesCondition(r) ==
    IF ~req[r].game.found
    THEN req[r].code = 404 /\ req[r].error \in {"Player not found", "Game not found"}
    ELSE LET game == req[r].game.row IN
         IF game.status # "in_progress"
         THEN req[r].code = 403 /\ req[r].error = "Game is not in progress"
         ELSE IF game.current_turn_player_id # req[r].playerId
         THEN req[r].code = 403 /\ req[r].error = "Not your turn"
         ELSE ~isMoveValid(game.grid.val, req[r].row, req[r].col) =>
                  /\ req[r].code = 409
                  /\ req[r].error \in
                       {"Cell is already occupied",
                        "Invalid move: cell is already occupied or out of bounds"}

\* a step that answers a move request with a rejection changes no table
RejectedMoveStep ==
    \A r \in ReqIds :
        (req[r].pc # "done" /\ req'[r].pc = "done" /\ req'[r].op = "move"
              /\ req'[r].code # 200) =>
            games' = games /\ moves' = moves /\ players' = players

\* C19 (as claimed): a move request is rejected with NotFound for an unknown
\* session, InvalidState when the status is not in_progress, NotYourTurn when
\* the player does not hold the turn, and IllegalMove when the coordinates
\* are out of range or the cell is occupied; a rejected move request leaves
\* the sessions, the move records and the player statistics unchanged.
C19_RejectionKinds ==
    /\ [] (\A r \in ReqIds : MoveRejected(r) => RejectionNamesCondition(r))
    /\ [][RejectedMoveStep]_vars

\* the move records of session g, in the order of the moves table
RecordsOf(ms, g) == SelectSeq(ms, LAMBDA m : m.game_id = g)

\* slot r takes a step in this transition
Acts(r) == req'[r] # req[r]

\* C22: a create, join or move request on one session, accepted or
\* rejected and interleaved in any way with requests on other sessions,
\* leaves every other session and its move records unchanged.
C22_OtherSessionsStep ==
    \A r \in ReqIds :
        (Acts(r) /\ req'[r].op \in {"games", "join", "move"}) =>
            \A h \in DOMAIN games :
                h # req'[r].gameId =>
                    /\ h \in DOMAIN games'
                    /\ games'[h] = games[h]
                    /\ RecordsOf(moves', h) = RecordsOf(moves, h)

C22_SessionsIndependent == [][C22_OtherSessionsStep]_vars

\* C22 witness: a join was accepted on one session and a move request was
\* turned away on it while another session is still waiting, as created
C22_Witness ==
    \E g \in DOMAIN games, h \in DOMAIN games, a \in ReqIds, b \in ReqIds :
        /\ g # h
        /\ IsDone(a, "join") /\ Accepted(a) /\ req[a].gameId = g
        /\ IsDone(b, "move") /\ req[b].gameId = g /\ req[b].game.found
        /\ games[g].status = "in_progress"
        /\ games[h] = createGame(games[h].player1_id, createEmptyGrid)

\* C23: a create request of a registered player is answered 201 and adds
\* one session: waiting, grid of zeros, turn and first seat with the
\* creator, no second player, no winner, move count 0; the sessions that
\* exist, the move records and the player statistics stay as they were.
C23_CreateStep ==
    \A r \in ReqIds :
        (Acts(r) /\ req'[r].op = "games" /\ req'[r].playerId \in DOMAIN players) =>
            LET id == Len(games) + 1 IN
            /\ req'[r].code = 201
            /\ req'[r].gameId = id
            /\ DOMAIN games' = 1..id
            /\ \A h \in DOMAIN games : games'[h] = games[h]
            /\ games'[id].status = "waiting"
            /\ JSONparse(games'[id].grid).val =
                  [row \in 1..3 |-> [col \in 1..3 |-> 0]]
            /\ games'[id].current_turn_player_id = req'[r].playerId
            /\ games'[id].player1_id = req'[r].playerId
            /\ games'[id].player2_id = NULL
            /\ games'[id].winner_id = NULL
            /\ games'[id].move_count = 0
            /\ players' = players
            /\ moves' = moves

C23_CreateSession == [][C23_CreateStep]_vars

\* C23 witness: a create request was answered 201 for a second session,
\* which is as created, next to a first session that is in progress
C23_Witness ==
    \E r \in ReqIds, h \in DOMAIN games :
        /\ IsDone(r, "games") /\ req[r].code = 201
        /\ h < req[r].gameId
        /\ games[h].status = "in_progress"
        /\ games[req[r].gameId].status = "waiting"
        /\ games[req[r].gameId].player1_id = req[r].playerId
        /\ games[req[r].gameId].player2_id = NULL

\* ---- leaderboard claims, checked under SpecLeaderboard
\* slot r holds an answered leaderboard request with a body
BoardDone(r) == IsDone(r, "leaderboard") /\ req[r].code = 200

\* the players listed in the body of slot r
Listed(r) == {req[r].body[i].playerId : i \in DOMAIN req[r].body}

HasWon(p) == players[p].total_wins > 0

\* moves per win of p is smaller than / equal to that of q
FewerMovesPerWin(p, q) ==
    players[p].total_moves_in_wins * players[q].total_wins
        < players[q].total_moves_in_wins * players[p].total_wins

SameMovesPerWin(p, q) ==
    players[p].total_moves_in_wins * players[q].total_wins
        = players[q].total_moves_in_wins * players[p].total_wins

\* p and q have exactly the same score under the ordering
SameScore(by, p, q) ==
    IF by = "wins"
    THEN players[p].total_wins = players[q].total_wins
    ELSE SameMovesPerWin(p, q)

\* C26: for both orderings the leaderboard request is answered 200 with
\* only players that have wins > 0, at most 3 entries, no player twice,
\* exactly min(k, 3) entries when k players have wins > 0, and so the
\* empty sequence when nobody has won.
C26_BoardMembers ==
    \A r \in ReqIds :
        (IsDone(r, "leaderboard") /\ req[r].by \in {"wins", "efficiency"}) =>
            LET b == req[r].body
                k == Cardinality({p \in DOMAIN players : HasWon(p)})
            IN /\ req[r].code = 200
               /\ \A i \in DOMAIN b : HasWon(b[i].playerId)
               /\ Len(b) <= 3
               /\ \A i \in DOMAIN b, j \in DOMAIN b :
                     i # j => b[i].playerId # b[j].playerId
               /\ Len(b) = IF k < 3 THEN k ELSE 3
               /\ k = 0 => b = << >>

\* C26 witness: one leaderboard of 3 entries of a table with 4 winners,
\* one per ordering
C26_Witness ==
    /\ Cardinality({p \in DOMAIN players : HasWon(p)}) = 4
    /\ \E a \in ReqIds, b \in ReqIds :
          /\ BoardDone(a) /\ req[a].by = "wins" /\ Len(req[a].body) = 3
          /\ BoardDone(b) /\ req[b].by = "efficiency" /\ Len(req[b].body) = 3

\* C27: under the wins ordering the returned scores are the players' wins,
\* non-increasing, and no omitted player has more wins than a returned one;
\* under the efficiency ordering the returned scores are moves_in_wins /
\* wins rounded to hundredths, non-decreasing, and no omitted player with
\* wins > 0 has strictly fewer moves per win than a returned one.
C27_BestInScoreOrder ==
    \A r \in ReqIds :
        BoardDone(r) =>
            LET b == req[r].body
                omitted == DOMAIN players \ Listed(r)
            IN IF req[r].by = "wins"
               THEN /\ \A i \in DOMAIN b :
                          b[i].value = players[b[i].playerId].total_wins
                    /\ \A i \in DOMAIN b, j \in DOMAIN b :
                          i < j => b[i].value >= b[j].value
                    /\ \A p \in omitted, i \in DOMAIN b :
                          players[p].total_wins <= b[i].value
               ELSE /\ \A i \in DOMAIN b :
                          LET w == players[b[i].playerId].total_wins
                              m == players[b[i].playerId].total_moves_in_wins
                          IN \* the hundredths nearest to m / w
                             /\ 2 * w * b[i].value <= 200 * m + w
                             /\ 2 * w * b[i].value > 200 * m - w
                    /\ \A i \in DOMAIN b, j \in DOMAIN b :
                          i < j => b[i].value <= b[j].value
                    /\ \A p \in omitted, i \in DOMAIN b :
                          HasWon(p) => ~FewerMovesPerWin(p, b[i].playerId)

\* C27 witness: an efficiency leaderboard that omits a winner with more
\* wins than each listed player, and a wins leaderboard of the same table
C27_Witness ==
    \E a \in ReqIds, c \in ReqIds :
        /\ BoardDone(a) /\ req[a].by = "efficiency" /\ Len(req[a].body) = 3
        /\ BoardDone(c) /\ req[c].by = "wins" /\ Len(req[c].body) = 3
        /\ req[a].body[1].value < req[a].body[3].value
        /\ req[c].body[1].value > req[c].body[3].value
        /\ \E p \in DOMAIN players \ Listed(a) :
              \A q \in Listed(a) : players[p].total_wins > players[q].total_wins

C30_DuplicateNameIs409 ==
    /\ \A r \in ReqIds :
          (IsDone(r, "players") /\ req[r].code # 201) =>
              /\ req[r].code = 409
              /\ req[r].error = "Player with this name already exists"
    /\ \A p \in DOMAIN players, q \in DOMAIN players :
          players[p].name = players[q].name => p = q

\* ---- grid function claims
\* the cell (i, j), 1-based, of the grid with rows `grid` in heap `heap`
CellAt(heap, grid, i, j) == heap[grid[i]][j]

\* C31: makeMove returns a grid that has the mark at (row, col) and equals
\* the input in the eight other cells; the input grid reads after the call
\* as before it, and no row array is part of both grids.
C31_NewGridNoAliasing ==
    \A r \in ReqIds :
        IsDone(r, "makeMove") =>
            LET c == req[r] IN
            /\ \A i \in 1..3, j \in 1..3 :
                  CellAt(c.after, c.result, i, j) =
                      IF i = c.row + 1 /\ j = c.col + 1
                      THEN c.playerId
                      ELSE CellAt(c.before, c.grid, i, j)
            /\ \A i \in 1..3, j \in 1..3 :
                  CellAt(c.after, c.grid, i, j) = CellAt(c.before, c.grid, i, j)
            /\ {c.result[i] : i \in 1..3} \cap {c.grid[i] : i \in 1..3} = {}
            /\ Cardinality({c.result[i] : i \in 1..3}) = 3

\* C31 witness: a call that wrote mark 2 over a cell holding 1; the result
\* holds 2 there and the input still holds 1
C31_Witness ==
    \E r \in ReqIds :
        /\ IsDone(r, "makeMove")
        /\ req[r].playerId = 2
        /\ CellAt(req[r].before, req[r].grid, req[r].row + 1, req[r].col + 1) = 1
        /\ CellAt(req[r].after, req[r].grid, req[r].row + 1, req[r].col + 1) = 1
        /\ CellAt(req[r].after, req[r].result, req[r].row + 1, req[r].col + 1) = 2

\* the 8 lines of the grid: 3 rows, 3 columns, 2 diagonals
Lines ==
    {{<<i, j>> : j \in 1..3} : i \in 1..3}
        \cup {{<<i, j>> : i \in 1..3} : j \in 1..3}
        \cup {{<<i, i>> : i \in 1..3}, {<<i, 4 - i>> : i \in 1..3}}

\* C32: checkWin returns true for a grid over {0, 1, 2} and a mark in
\* {1, 2} iff at least one of the 8 lines holds that mark in its 3 cells.
C32_WinIffLine ==
    \A r \in ReqIds :
        IsDone(r, "checkWin") =>
            (req[r].result <=>
                \E line \in Lines :
                    \A c \in line : req[r].grid[c[1]][c[2]] = req[r].playerId)

\* C32 witness: a call answered true on a grid whose only complete line is
\* the diagonal from (0,2) to (2,0)
C32_Witness ==
    \E r \in ReqIds :
        /\ IsDone(r, "checkWin")
        /\ req[r].result
        /\ Cardinality(Lines) = 8
        /\ \A line \in Lines :
              (\A c \in line : req[r].grid[c[1]][c[2]] = req[r].playerId)
                  <=> line = {<<1, 3>>, <<2, 2>>, <<3, 1>>}

\* the cell of the move request in slot r is out of range or occupied in
\* the session as the handler read it
IllegalCell(r) ==
    ~isMoveValid(req[r].game.row.grid.val, req[r].row, req[r].col)

\* a move request for which several rejection conditions hold got the
\* answer of the first: unknown session, then status, then turn, then cell
MoveChecksInOrder ==
    \A r \in ReqIds :
        IsDone(r, "move") =>
            IF ~req[r].game.found
            THEN req[r].code = 404
            ELSE LET game == req[r].game.row
                     notTurn == game.current_turn_player_id # req[r].playerId
                 IN /\ (game.status # "in_progress" /\ (notTurn \/ IllegalCell(r))) =>
                          /\ req[r].code = 403
                          /\ req[r].error = "Game is not in progress"
                    /\ (game.status = "in_progress" /\ notTurn /\ IllegalCell(r)) =>
                          /\ req[r].code = 403
                          /\ req[r].error = "Not your turn"

\* a join request on an unknown session is answered NotFound, and a join of
\* the first player that commits on a session that is not waiting is
\* answered InvalidState, not SelfJoin
JoinChecksInOrderStep ==
    \A r \in ReqIds :
        /\ (Acts(r) /\ req'[r].op = "join" /\ req'[r].pc = "done"
                /\ req'[r].gameId \notin DOMAIN games) => req'[r].code = 404
        /\ (JoinCommits(r) /\ games[req[r].gameId].status # "waiting"
                /\ games[req[r].gameId].player1_id = req[r].playerId) =>
               AnsweredNotWaiting(r)

\* C33: when several rejection conditions hold at once the first failing
\* check is the one reported: for a move NotFound, then InvalidState, then
\* NotYourTurn, then the cell; for a join NotFound, then InvalidState, then
\* SelfJoin.
C33_FirstFailingCheck == [] MoveChecksInOrder /\ [][JoinChecksInOrderStep]_vars

\* C33 witness: a move of the player without the turn onto a cell out of
\* range was answered 'Not your turn', and a join of the first player on
\* their session in progress was answered 'Game is not in waiting state'
C33_Witness ==
    \E a \in ReqIds, b \in ReqIds :
        /\ IsDone(a, "move") /\ req[a].game.found
        /\ req[a].game.row.status = "in_progress"
        /\ req[a].game.row.current_turn_player_id # req[a].playerId
        /\ IllegalCell(a)
        /\ req[a].code = 403 /\ req[a].error = "Not your turn"
        /\ IsDone(b, "join") /\ req[b].game.found
        /\ req[b].game.row.status = "in_progress"
        /\ req[b].game.row.player1_id = req[b].playerId
        /\ req[b].code = 409 /\ req[b].error = "Game is not in waiting state"

\* the player whose turn it is has a cell for which the handler, run on the
\* session as stored, goes on to commit the move
TurnHolderCanMove ==
    \A g \in DOMAIN games :
        games[g].status = "in_progress" =>
            \E row \in 0..2, col \in 0..2 :
                MoveDecision(getGameById(g).row, games[g].current_turn_player_id,
                             row, col).call

\* C40 (as claimed): in every state of a session in progress the player
\* whose turn it is has at least one move that would be accepted, and while
\* that player keeps posting moves the session eventually is won or drawn.
C40_SessionEnds ==
    /\ [] TurnHolderCanMove
    /\ \A g \in GameIds :
          (g \in DOMAIN games /\ games[g].status = "in_progress")
              ~> (g \in DOMAIN games /\ games[g].status \in {"win", "draw"})

=============================================================================
